---- MODULE Spec2Model ----
(***************************************************************************)
(* Model of the authentication core of axum-base: the users table, the     *)
(* PasswordService, the AuthService operations (src/src/auth.rs) and the   *)
(* login handler (src/src/web.rs); beside them the session layer, the      *)
(* profile pages, the command-line tools (src/src/bin), start_server       *)
(* (src/src/server.rs) and format_human_time.                              *)
(*                                                                         *)
(* Every SQL statement is one atomic step.  An operation that issues two   *)
(* statements (authenticate_user, change_user_password) is a task with a   *)
(* program counter, so that other statements interleave between its        *)
(* SELECT and its UPDATE.  Every statement may fail with a store error.    *)
(* Option<T> is a sequence of length 0 (None) or 1 (Some).                 *)
(***************************************************************************)
EXTENDS Integers, Sequences, FiniteSets, TLC

VARIABLES
    users,      \* the rows of the users table
    next_id,    \* the next value of the serial id column
    clock,      \* the last value Utc::now() returned
    sessions,   \* session id -> Option<AuthenticatedUser> under USER_SESSION_KEY
    task,       \* the requests in flight: task id -> call frame
    ret,        \* what the call that completed last returned to its caller
                \* (dropped when the next request starts)
    changed,    \* history: user id -> Option<[cur, new, over]> of the last
                \* successful change_user_password (over: the hash it
                \* overwrote), cleared by any other password write
    today,      \* the day the session layer reads as now
    expiry_date, \* session id -> the day its record expires (0: no record)
    trail,      \* history: session id -> [login, last_used]: the user the last
                \* successful login on the session verified, and the day of
                \* the last request that used the session
    hasher,     \* the frame of a PasswordService round trip
    server,     \* the server process: where start_server is, the steps it
                \* has completed, and how it ended
    formatter   \* the frame of a call of format_human_time

vars == <<users, next_id, clock, sessions, task, ret, changed,
          today, expiry_date, trail, hasher, server, formatter>>

\* What the core operations (AuthService, UserService) never touch
webvars == <<today, expiry_date, trail, hasher, server, formatter>>

----------------------------------------------------------------------------
\* Bounds of the model

MaxUsers == 2
MaxClock == 2
MaxSalt == 1

MaxDay == 45

MIN_PASSWORD_LEN == 8
\* Expiry::OnInactivity(Duration::days(30))
SESSION_EXPIRY_DAYS == 30

Tasks == {"t1", "t2", "t3"}
Sessions == {"s1", "s2"}
LoginSessions == {"s1"}
Usernames == {"alice", "bob"}
Emails == {"alice@example.com", "alice2@example.com"}
Passwords == {"short", "hunter2pass", "newpass123"}
Salts == 1..MaxSalt
UserIds == 1..MaxUsers
\* The ids the requests of Spec name: the fixture's user and an id without a row
CoreIds == {1, 2}

\* The steps by which the days pass
DayJumps == {15, 30}

None == <<>>
Some(v) == <<v>>

----------------------------------------------------------------------------
\* PasswordService

\* A PHC hash string: its salt and the digest of (salt, password).  A string
\* that is no PHC string has phc = FALSE.
hash_password(password, salt) ==
    [phc |-> TRUE, salt |-> salt, digest |-> <<salt, password>>]

\* A string that PasswordHash::new does not parse: s as it is
PlainString(s) == [phc |-> FALSE, salt |-> 0, digest |-> <<0, s>>]

\* A variant that compares no more than the length of the password
verify_password_by_length(password, hash) ==
    IF ~hash.phc THEN "Err"
    ELSE IF Len(hash.digest[2]) = Len(password) THEN "true"
    ELSE "false"

verify_password(password, hash) ==
    IF ~hash.phc THEN "Err"
    ELSE IF hash.digest = <<hash.salt, password>> THEN "true"
    ELSE "false"

\* The passwords of a round trip: those of the requests, the empty one and
\* near misses
HasherPasswords == Passwords \cup {"", "Hunter2pass", "hunter2pass "}

\* SaltString::generate(&mut OsRng)
HasherSalts == 1..(MaxSalt + 1)

----------------------------------------------------------------------------
\* Models

From_User(user) ==
    [id |-> user.id, username |-> user.username, email |-> user.email,
     is_active |-> user.is_active]

----------------------------------------------------------------------------
\* The users table

\* username is UNIQUE in the schema
UniqueViolation(username) == \E r \in users : r.username = username

NewRow(id, username, email, password_hash, now) ==
    [id |-> id, username |-> username, email |-> email,
     password_hash |-> password_hash, email_verified |-> FALSE,
     is_active |-> TRUE, last_login |-> None, created_at |-> now,
     updated_at |-> now]

\* A table holding the one user the tests create
Fixture(hash1, active1) ==
    { [id |-> 1, username |-> "alice", email |-> "alice@example.com",
       password_hash |-> hash1, email_verified |-> FALSE, is_active |-> active1,
       last_login |-> None, created_at |-> 0, updated_at |-> 0] }

\* fetch_optional: the first matching row, if any
fetch_optional(rows) == IF rows = {} THEN None ELSE Some(CHOOSE r \in rows : TRUE)

\* The form of POST /profile: every field may be missing
NoForm ==
    [action |-> None, email |-> None, current_password |-> None,
     new_password |-> None, confirm_password |-> None]

Idle ==
    [op |-> "idle", pc |-> "idle", sid |-> "", username |-> "", password |-> "",
     user_id |-> 0, new_password |-> "", user |-> None, seen |-> None,
     form |-> NoForm, identity |-> None]

NoRet == [op |-> "", result |-> "", response |-> "", why |-> ""]

NoTrail == [login |-> None, last_used |-> 0]

NoHasher == [pc |-> "idle", password |-> "", candidate |-> "", hash |-> None,
             result |-> ""]

NoFormatter ==
    [pc |-> "idle", dt |-> [year |-> 0, month |-> 0, day |-> 0, hour |-> 0, minute |-> 0],
     result |-> ""]

\* start_server as the process begins
Starting ==
    [pc |-> "init_pool", done |-> <<>>, connection |-> "", templates |-> FALSE,
     exit |-> None, failed |-> ""]

\* start_server in axum::serve, every step before it completed
Serving ==
    [pc |-> "serve",
     done |-> <<"init_pool", "test_connection", "run_migrations", "init_templates",
                "session_store.migrate", "bind">>,
     connection |-> "Ok(true)", templates |-> TRUE, exit |-> None, failed |-> ""]

\* No request in flight, no session record, the session clock at day 0
Quiet ==
    /\ clock = 0
    /\ sessions = [s \in Sessions |-> None]
    /\ task = [t \in Tasks |-> Idle]
    /\ ret = NoRet
    /\ changed = [i \in UserIds |-> None]
    /\ today = 0
    /\ expiry_date = [s \in Sessions |-> 0]
    /\ trail = [s \in Sessions |-> NoTrail]
    /\ hasher = NoHasher
    /\ server = Serving
    /\ formatter = NoFormatter

Init ==
    /\ \/ users = {} /\ next_id = 1
       \/ /\ \E h1 \in {None, Some(hash_password("hunter2pass", 1))}, a1 \in BOOLEAN :
                users = Fixture(h1, a1)
          /\ next_id = 2
    /\ Quiet

----------------------------------------------------------------------------
\* AuthService: the single-statement operations

\* Utc::now(): a later instant on every read
Tick == clock < MaxClock /\ clock' = clock + 1

\* why: the branch that returned ("store": the statement failed in the store)
Returns(op, result, why) ==
    ret' = [op |-> op, result |-> result, response |-> "", why |-> why]

\* WHERE id = $3
set_user_password_rows(user_id) == {r \in users : r.id = user_id}

\* A variant that does not look at rows_affected()
set_user_password_result_unchecked(rows_affected) == "Ok"

\* rows_affected() == 0 -> Err("User with ID {} not found")
set_user_password_result(rows_affected) ==
    IF rows_affected = 0 THEN "NotFound" ELSE "Ok"

set_user_password(user_id, password) ==
    \E salt \in Salts, ok \in BOOLEAN :
        LET password_hash == hash_password(password, salt)
            now == clock + 1
            rows == set_user_password_rows(user_id)
        IN  /\ Tick
            /\ IF ok
               THEN /\ users' = (users \ rows) \cup
                          {[r EXCEPT !.password_hash = Some(password_hash),
                                     !.updated_at = now] : r \in rows}
                    /\ Returns("set_user_password",
                               set_user_password_result(Cardinality(rows)), "")
                    /\ changed' = [i \in UserIds |->
                          IF \E r \in rows : r.id = i THEN None ELSE changed[i]]
               ELSE /\ Returns("set_user_password", "Err", "store")
                    /\ UNCHANGED <<users, changed>>
            /\ UNCHANGED <<next_id, sessions, task>>
            /\ UNCHANGED webvars

\* A variant whose WHERE clause leaves out is_active
update_user_profile_rows_any(user_id) == {r \in users : r.id = user_id}

\* WHERE id = $3 AND is_active = true
update_user_profile_rows(user_id) == {r \in users : r.id = user_id /\ r.is_active}

update_user_profile(user_id, email) ==
    \E ok \in BOOLEAN :
        LET now == clock + 1
            rows == update_user_profile_rows(user_id)
        IN  /\ Tick
            /\ IF ok
               THEN /\ users' = (users \ rows) \cup
                          {[r EXCEPT !.email = email, !.updated_at = now] : r \in rows}
                    /\ Returns("update_user_profile",
                               IF Cardinality(rows) > 0 THEN "true" ELSE "false", "")
               ELSE /\ Returns("update_user_profile", "Err", "store")
                    /\ UNCHANGED users
            /\ UNCHANGED <<next_id, sessions, task, changed>>
            /\ UNCHANGED webvars

\* A variant that stores the password as it is given
create_user_password_hash_plain(password, salt) ==
    IF password # None THEN Some(PlainString(password[1])) ELSE None

\* A variant that hashes an empty password when none is given
create_user_password_hash_always(password, salt) ==
    IF password # None THEN Some(hash_password(password[1], salt))
    ELSE Some(hash_password("", salt))

\* Some(pwd) is hashed, None stays None
create_user_password_hash(password, salt) ==
    IF password # None THEN Some(hash_password(password[1], salt)) ELSE None

\* A variant that maps every sqlx error to one message
create_user_result_opaque(db) == IF db = "inserted" THEN "Ok" ELSE "Err"

\* The INSERT's outcome as create_user returns it: `?` boxes the sqlx error
\* as it is, so a unique violation stays a unique violation
create_user_result(db) ==
    CASE db = "inserted" -> "Ok"
      [] db = "unique_violation" -> "Duplicate"
      [] OTHER -> "Err"

create_user(username, email, password) ==
    \E salt \in Salts, ok \in BOOLEAN :
        LET password_hash == create_user_password_hash(password, salt)
            now == clock + 1
            user == NewRow(next_id, username, email, password_hash, now)
            db == IF ~ok THEN "failed"
                  ELSE IF UniqueViolation(username) THEN "unique_violation"
                  ELSE "inserted"
        IN  /\ next_id <= MaxUsers
            /\ Tick
            /\ IF db = "inserted"
               THEN /\ users' = users \cup {user}
                    /\ next_id' = next_id + 1
                    /\ changed' = [changed EXCEPT ![user.id] = None]
               ELSE UNCHANGED <<users, next_id, changed>>
            /\ Returns("create_user", create_user_result(db),
                       IF db = "failed" THEN "store" ELSE "")
            /\ UNCHANGED <<sessions, task>>
            /\ UNCHANGED webvars

----------------------------------------------------------------------------
\* The command-line tools: bin/set_password.rs and bin/create_user.rs

\* str::parse::<i32> on the strings the tools are given
parse_i32(s) ==
    CASE s = "1" -> Some(1)
      [] s = "2" -> Some(2)
      [] s = "+1" -> Some(1)
      [] OTHER -> None

\* str::trim on the lines typed
trim(s) ==
    CASE s = " y" -> "y"
      [] s = " " -> ""
      [] OTHER -> s

\* str::to_lowercase on the answers typed
to_lowercase(s) ==
    CASE s = "Y" -> "y"
      [] s = "N" -> "n"
      [] OTHER -> s

\* What a tool leaves behind: its exit status and the line it printed
Exits(op, status, line, why) ==
    ret' = [op |-> op, result |-> status, response |-> line, why |-> why]

\* The command lines of set_password, args[1] being the program name
SetPasswordArgs ==
    {<<"set_password">>, <<"set_password", "1">>,
     <<"set_password", "1", "newpass123", "extra">>,
     <<"set_password", "notanumber", "newpass123">>,
     <<"set_password", "notanumber", "short">>,
     <<"set_password", "1", "short">>,
     <<"set_password", "+1", "newpass123">>,
     <<"set_password", "1", "newpass123">>,
     <<"set_password", "2", "newpass123">>}

\* A variant that leaves out the check of the password's length
set_password_check_no_length(args) ==
    IF Len(args) # 3 THEN "usage"
    ELSE IF parse_i32(args[2]) = None THEN "parse"
    ELSE ""

\* The checks of set_password's main before it connects ("": all pass)
set_password_check(args) ==
    IF Len(args) # 3 THEN "usage"
    ELSE IF parse_i32(args[2]) = None THEN "parse"
    ELSE IF Len(args[3]) < MIN_PASSWORD_LEN THEN "short"
    ELSE ""

\* set_password <user_id> <password>: the checks, init_pool, then
\* AuthService::set_user_password
set_password_main(args) ==
    LET check == set_password_check(args)
    IN  /\ CASE check = "usage" ->
                  /\ Exits("set_password", "exit(1)", "Usage:", "usage")
                  /\ UNCHANGED <<users, clock, changed>>
             [] check = "parse" ->
                  /\ Exits("set_password", "exit(1)",
                           "Error: User ID must be a valid number", "parse")
                  /\ UNCHANGED <<users, clock, changed>>
             [] check = "short" ->
                  /\ Exits("set_password", "exit(1)",
                           "Error: Password must be at least 8 characters long", "short")
                  /\ UNCHANGED <<users, clock, changed>>
             [] OTHER ->
                  \E pool \in BOOLEAN, salt \in Salts, ok \in BOOLEAN :
                      LET user_id == parse_i32(args[2])[1]
                          password_hash == hash_password(args[3], salt)
                          now == clock + 1
                          rows == set_user_password_rows(user_id)
                      IN  IF ~pool
                          THEN /\ Exits("set_password", "exit(1)", "", "pool")
                               /\ UNCHANGED <<users, clock, changed>>
                          ELSE /\ Tick
                               /\ IF ok
                                  THEN /\ users' = (users \ rows) \cup
                                             {[r EXCEPT !.password_hash = Some(password_hash),
                                                        !.updated_at = now] : r \in rows}
                                       /\ changed' = [i \in UserIds |->
                                             IF \E r \in rows : r.id = i THEN None
                                             ELSE changed[i]]
                                       /\ IF set_user_password_result(Cardinality(rows)) = "Ok"
                                          THEN Exits("set_password", "exit(0)",
                                                     "Password set successfully", "")
                                          ELSE Exits("set_password", "exit(1)",
                                                     "Failed to set password", "not_found")
                                  ELSE /\ Exits("set_password", "exit(1)",
                                                "Failed to set password", "store")
                                       /\ UNCHANGED <<users, changed>>
        /\ UNCHANGED <<next_id, sessions, task>>
        /\ UNCHANGED webvars

\* The command lines of create_user
CreateUserArgs ==
    {<<"create_user">>, <<"create_user", "bob">>, <<"create_user", "bob", "bob@example.com">>,
     <<"create_user", "bob", "bob@example.com", "newpass123">>,
     <<"create_user", "bob", "", "newpass123">>,
     <<"create_user", "alice", "alice2@example.com", "newpass123">>}

\* The lines typed in interactive mode: the email, the answer to
\* "Set password now? (y/N)", the password
CreateUserStdin ==
    {<<e, a, "newpass123">> : e \in {"bob@example.com", " "},
                              a \in {"y", "Y", " y", "n", "N", ""}}

\* The answer that lets the password line be read
create_user_answer_is_yes(answer) == to_lowercase(trim(answer)) = "y"

\* (email, password) as main takes them from the command line or the terminal
create_user_input(args, stdin) ==
    IF Len(args) = 4
    THEN [email |-> args[3], password |-> Some(args[4])]
    ELSE [email |-> trim(stdin[1]),
          password |-> IF create_user_answer_is_yes(stdin[2])
                       THEN Some(trim(stdin[3])) ELSE None]

\* create_user <username> [email] [password]: the argument count, the
\* input, the empty-email check, init_pool, then AuthService::create_user
create_user_main(args, stdin) ==
    IF Len(args) # 2 /\ Len(args) # 4
    THEN /\ Exits("create_user", "exit(1)", "Usage:", "usage")
         /\ UNCHANGED <<users, next_id, clock, changed, sessions, task>>
         /\ UNCHANGED webvars
    ELSE LET username == args[2]
             email == create_user_input(args, stdin).email
             password == create_user_input(args, stdin).password
         IN  IF email = ""
             THEN /\ Exits("create_user", "exit(1)", "Error: Email cannot be empty", "email")
                  /\ UNCHANGED <<users, next_id, clock, changed, sessions, task>>
                  /\ UNCHANGED webvars
             ELSE \E pool \in BOOLEAN, salt \in Salts, ok \in BOOLEAN :
                      LET password_hash == create_user_password_hash(password, salt)
                          now == clock + 1
                          user == NewRow(next_id, username, email, password_hash, now)
                          db == IF ~ok THEN "failed"
                                ELSE IF UniqueViolation(username) THEN "unique_violation"
                                ELSE "inserted"
                      IN  IF ~pool
                          THEN /\ Exits("create_user", "exit(1)", "", "pool")
                               /\ UNCHANGED <<users, next_id, clock, changed,
                                              sessions, task>>
                               /\ UNCHANGED webvars
                          ELSE /\ next_id <= MaxUsers
                               /\ Tick
                               /\ IF db = "inserted"
                                  THEN /\ users' = users \cup {user}
                                       /\ next_id' = next_id + 1
                                       /\ changed' = [changed EXCEPT ![user.id] = None]
                                       /\ Exits("create_user", "exit(0)",
                                                IF password # None THEN "Password: Set"
                                                ELSE "Password: Not set", "")
                                  ELSE /\ UNCHANGED <<users, next_id, changed>>
                                       /\ Exits("create_user", "exit(1)",
                                                "Failed to create user",
                                                IF db = "failed" THEN "store"
                                                ELSE "duplicate")
                               /\ UNCHANGED <<sessions, task>>
                               /\ UNCHANGED webvars

----------------------------------------------------------------------------
\* UserService: the updates of the user store

\* UPDATE users SET last_login = NOW() WHERE id = $1
update_last_login(user_id) ==
    \E ok \in BOOLEAN :
        LET now == clock + 1
            rows == {r \in users : r.id = user_id}
        IN  /\ Tick
            /\ IF ok
               THEN /\ users' = (users \ rows) \cup
                          {[r EXCEPT !.last_login = Some(now)] : r \in rows}
                    /\ Returns("update_last_login", "Ok", "")
               ELSE /\ Returns("update_last_login", "Err", "store")
                    /\ UNCHANGED users
            /\ UNCHANGED <<next_id, sessions, task, changed>>
            /\ UNCHANGED webvars

\* UPDATE users SET email = $1, updated_at = NOW() WHERE id = $2
update_user_email(user_id, new_email) ==
    \E ok \in BOOLEAN :
        LET now == clock + 1
            rows == {r \in users : r.id = user_id}
        IN  /\ Tick
            /\ IF ok
               THEN /\ users' = (users \ rows) \cup
                          {[r EXCEPT !.email = new_email, !.updated_at = now] : r \in rows}
                    /\ Returns("update_user_email", "Ok", "")
               ELSE /\ Returns("update_user_email", "Err", "store")
                    /\ UNCHANGED users
            /\ UNCHANGED <<next_id, sessions, task, changed>>
            /\ UNCHANGED webvars

\* UPDATE users SET password_hash = $1, updated_at = NOW() WHERE id = $2:
\* the string is stored as the caller gives it
update_user_password(user_id, new_password_hash) ==
    \E ok \in BOOLEAN :
        LET now == clock + 1
            rows == {r \in users : r.id = user_id}
        IN  /\ Tick
            /\ IF ok
               THEN /\ users' = (users \ rows) \cup
                          {[r EXCEPT !.password_hash = Some(new_password_hash),
                                     !.updated_at = now] : r \in rows}
                    /\ Returns("update_user_password", "Ok", "")
                    /\ changed' = [i \in UserIds |->
                          IF \E r \in rows : r.id = i THEN None ELSE changed[i]]
               ELSE /\ Returns("update_user_password", "Err", "store")
                    /\ UNCHANGED <<users, changed>>
            /\ UNCHANGED <<next_id, sessions, task>>
            /\ UNCHANGED webvars

\* The strings given to update_user_password: a hash, a password as it is,
\* and the empty string
HashStrings ==
    {hash_password("newpass123", 1), PlainString("hunter2pass"), PlainString("")}

----------------------------------------------------------------------------
\* The environment of the core

\* Soft delete: the row stays, is_active becomes false
Deactivate(user_id) ==
    /\ \E r \in users : r.id = user_id /\ r.is_active
    /\ users' = {IF r.id = user_id THEN [r EXCEPT !.is_active = FALSE] ELSE r : r \in users}
    /\ UNCHANGED <<next_id, clock, sessions, task, ret, changed>>
    /\ UNCHANGED webvars

\* TRUNCATE TABLE sessions, users RESTART IDENTITY CASCADE
cleanup ==
    /\ users # {}
    /\ users' = {}
    /\ next_id' = 1
    /\ sessions' = [s \in Sessions |-> None]
    /\ changed' = [i \in UserIds |-> None]
    /\ expiry_date' = [s \in Sessions |-> 0]
    /\ trail' = [s \in Sessions |-> NoTrail]
    /\ UNCHANGED <<clock, task, ret, today, hasher, server, formatter>>

----------------------------------------------------------------------------
\* The session layer

\* A variant that loads a record whatever its expiry date
session_get_unexpired(sid) == sessions[sid]

\* session.get(USER_SESSION_KEY): the record is loaded only before its expiry
\* date
session_get(sid) ==
    IF sessions[sid] # None /\ expiry_date[sid] > today THEN sessions[sid] ELSE None

\* A variant that falls back to a default identity
get_current_user_or_default(sid, ok) ==
    IF ok /\ session_get(sid) # None THEN session_get(sid)
    ELSE Some([id |-> 0, username |-> "", email |-> "", is_active |-> FALSE])

\* get_current_user: session.get(..).await.ok().flatten()
get_current_user(sid, ok) == IF ok THEN session_get(sid) ELSE None

\* A modified session is saved with the expiry date a whole window ahead
session_save(sid) ==
    expiry_date' = [expiry_date EXCEPT ![sid] = today + SESSION_EXPIRY_DAYS]

\* The days pass while no request is served
DaysPass(d) ==
    /\ today + d <= MaxDay
    /\ today' = today + d
    /\ UNCHANGED <<users, next_id, clock, sessions, task, ret, changed,
                   expiry_date, trail, hasher, server, formatter>>

----------------------------------------------------------------------------
\* handle_login and AuthService::authenticate_user

InvalidMsg == "Invalid username or password"
SystemErrorMsg == "System error. Please try again later."
SessionErrorMsg == "Session error. Please try again."
RedirectHome == "Redirect:/"
RedirectLogin == "Redirect:/login"
ProfilePage == "profile.html"
IndexPage == "index.html"
ProfileUpdatedMsg == "Profile updated successfully!"
ProfileFailedMsg == "Failed to update profile"
DatabaseErrorMsg == "Database error"
PasswordsDifferMsg == "New passwords do not match"
PasswordShortMsg == "Password must be at least 8 characters"
PasswordChangedMsg == "Password changed successfully!"
CurrentIncorrectMsg == "Current password is incorrect"
ChangeErrorMsg == "Error changing password"

\* The call of task t returns: its frame is dropped, ret holds what it returned
Finish(t, op, result, response, why) ==
    /\ task' = [task EXCEPT ![t] = Idle]
    /\ ret' = [op |-> op, result |-> result, response |-> response, why |-> why]

\* A variant whose WHERE clause leaves out is_active
authenticate_user_rows_any(username) == {r \in users : r.username = username}

\* WHERE username = $1 AND is_active = true
authenticate_user_rows(username) ==
    {r \in users : r.username = username /\ r.is_active}

\* A variant that fetches with fetch_one: no row is a RowNotFound error
authenticate_user_check_fetch_one(user, password) ==
    IF user = None THEN "Err"
    ELSE IF user[1].password_hash = None THEN "None"
    ELSE IF verify_password(password, user[1].password_hash[1]) = "true" THEN "verified"
    ELSE "None"

\* What authenticate_user decides from the fetched row, before any write:
\* "verified" (go on to the last-login UPDATE) or the value it returns
authenticate_user_check(user, password) ==
    IF user = None THEN "None"                          \* not found or not active
    ELSE IF user[1].password_hash = None THEN "None"    \* no password set
    ELSE CASE verify_password(password, user[1].password_hash[1]) = "true" -> "verified"
           [] verify_password(password, user[1].password_hash[1]) = "false" -> "None"
           [] OTHER -> "None"                           \* hash verification error

\* The branch that turned the fetched row down (the code's comments)
RejectionBranch(user) ==
    IF user = None THEN "no_user"
    ELSE IF user[1].password_hash = None THEN "no_hash"
    ELSE "mismatch"

\* A variant that shows the error authenticate_user returned
handle_login_error_raw(result) ==
    IF result = "None" THEN InvalidMsg ELSE "error returned from database"

\* The page handle_login renders for what authenticate_user returned
handle_login_error(result) ==
    IF result = "None" THEN InvalidMsg ELSE SystemErrorMsg

StartLogin(t, sid, username, password) ==
    /\ task[t].pc = "idle"
    /\ task' = [task EXCEPT ![t] = [Idle EXCEPT !.op = "login", !.pc = "auth_select",
                   !.sid = sid, !.username = username, !.password = password]]
    /\ ret' = NoRet
    /\ UNCHANGED <<users, next_id, clock, sessions, changed>>
    /\ UNCHANGED webvars

\* authenticate_user: the SELECT, the password check, and every return that
\* comes before the UPDATE
AuthSelect(t) ==
    /\ task[t].pc = "auth_select"
    /\ \E ok \in BOOLEAN :
        LET user == fetch_optional(authenticate_user_rows(task[t].username))
            out == authenticate_user_check(user, task[t].password)
            seen == IF user = None THEN None ELSE changed[user[1].id]
        IN  IF ~ok THEN Finish(t, "login", "Err", handle_login_error("Err"), "store")
            ELSE IF out = "verified"
            THEN /\ task' = [task EXCEPT ![t] =
                       [task[t] EXCEPT !.pc = "auth_update", !.user = user, !.seen = seen]]
                 /\ UNCHANGED ret
            ELSE Finish(t, "login", out, handle_login_error(out), RejectionBranch(user))
    /\ UNCHANGED <<users, next_id, clock, sessions, changed>>
    /\ UNCHANGED webvars

\* authenticate_user: UPDATE users SET last_login, updated_at WHERE id = $2,
\* `?` on its result, then Ok(Some(user.into()))
AuthUpdate(t) ==
    /\ task[t].pc = "auth_update"
    /\ Tick
    /\ \E ok \in BOOLEAN :
        LET now == clock + 1
            rows == {r \in users : r.id = task[t].user[1].id}
        IN  IF ok
            THEN /\ users' = (users \ rows) \cup
                       {[r EXCEPT !.last_login = Some(now), !.updated_at = now] : r \in rows}
                 /\ task' = [task EXCEPT ![t] = [task[t] EXCEPT !.pc = "session_insert"]]
                 /\ UNCHANGED ret
            ELSE /\ Finish(t, "login", "Err", handle_login_error("Err"), "store")
                 /\ UNCHANGED users
    /\ UNCHANGED <<next_id, sessions, changed>>
    /\ UNCHANGED webvars

\* A variant that empties the session when session.insert fails
handle_login_session_reset(session, user, inserted) ==
    IF inserted THEN Some(From_User(user)) ELSE None

\* What the session holds under USER_SESSION_KEY after the Ok(Some(user)) arm
\* of handle_login: the user when session.insert succeeded, else what it held
handle_login_session(session, user, inserted) ==
    IF inserted THEN Some(From_User(user)) ELSE session

\* handle_login, Ok(Some(user)): session.insert(USER_SESSION_KEY, &user)
SessionInsert(t) ==
    /\ task[t].pc = "session_insert"
    /\ \E ok \in BOOLEAN :
        IF ok
        THEN /\ sessions' = [sessions EXCEPT ![task[t].sid] =
                   handle_login_session(sessions[task[t].sid], task[t].user[1], TRUE)]
             /\ session_save(task[t].sid)
             /\ trail' = [trail EXCEPT ![task[t].sid] =
                   [login |-> Some([id |-> task[t].user[1].id,
                                    username |-> task[t].user[1].username]),
                    last_used |-> today]]
             /\ Finish(t, "login", "Some", RedirectHome, "")
        ELSE /\ sessions' = [sessions EXCEPT ![task[t].sid] =
                   handle_login_session(sessions[task[t].sid], task[t].user[1], FALSE)]
             /\ Finish(t, "login", "Some", SessionErrorMsg, "store")
             /\ UNCHANGED <<expiry_date, trail>>
    /\ UNCHANGED <<users, next_id, clock, changed, today, hasher, server, formatter>>

----------------------------------------------------------------------------
\* AuthService::change_user_password

\* WHERE id = $1 AND is_active = true
change_user_password_rows(user_id) ==
    {r \in users : r.id = user_id /\ r.is_active}

\* A variant that goes on to the UPDATE whatever verify_password answered
change_user_password_check_unverified(user, current_password) ==
    IF user = None THEN "false"
    ELSE IF user[1].password_hash = None THEN "false"
    ELSE "verified"

\* What change_user_password decides from the fetched row: "verified" (go on
\* to hash and UPDATE), "false" (Ok(false)) or "Err"
change_user_password_check(user, current_password) ==
    IF user = None THEN "false"
    ELSE IF user[1].password_hash = None THEN "false"
    ELSE CASE verify_password(current_password, user[1].password_hash[1]) = "true" -> "verified"
           [] verify_password(current_password, user[1].password_hash[1]) = "false" -> "false"
           [] OTHER -> "Err"                \* "Password verification error"

\* A variant that hashes the wrong argument
change_user_password_stored_current(current_password, new_password) == current_password

\* The password whose hash the UPDATE stores
change_user_password_stored(current_password, new_password) == new_password

\* A variant whose UPDATE also compares the hash the SELECT read
change_user_password_update_rows_cas(user_id, user) ==
    {r \in users : r.id = user_id /\ r.password_hash = user[1].password_hash}

\* The UPDATE's WHERE id = $3 (user: the row the SELECT read)
change_user_password_update_rows(user_id, user) == {r \in users : r.id = user_id}

\* What the caller of change_user_password makes of its result: a direct
\* call has the result alone, handle_profile_update renders a message
change_password_message(op, result) ==
    IF op # "handle_profile_update" THEN ""
    ELSE CASE result = "true" -> PasswordChangedMsg
           [] result = "false" -> CurrentIncorrectMsg
           [] OTHER -> ChangeErrorMsg

StartChange(t, user_id, current_password, new_password) ==
    /\ task[t].pc = "idle"
    /\ task' = [task EXCEPT ![t] = [Idle EXCEPT !.op = "change_user_password",
                   !.pc = "chg_select", !.user_id = user_id,
                   !.password = current_password, !.new_password = new_password]]
    /\ ret' = NoRet
    /\ UNCHANGED <<users, next_id, clock, sessions, changed>>
    /\ UNCHANGED webvars

ChgSelect(t) ==
    /\ task[t].pc = "chg_select"
    /\ \E ok \in BOOLEAN :
        LET user == fetch_optional(change_user_password_rows(task[t].user_id))
            out == change_user_password_check(user, task[t].password)
            op == task[t].op
        IN  IF ~ok THEN Finish(t, op, "Err", change_password_message(op, "Err"), "store")
            ELSE IF out = "verified"
            THEN /\ task' = [task EXCEPT ![t] =
                       [task[t] EXCEPT !.pc = "chg_update", !.user = user]]
                 /\ UNCHANGED ret
            ELSE Finish(t, op, out, change_password_message(op, out),
                        RejectionBranch(user))
    /\ UNCHANGED <<users, next_id, clock, sessions, changed>>
    /\ UNCHANGED webvars

\* UPDATE users SET password_hash = $1, updated_at = $2 WHERE id = $3, then
\* Ok(true) whatever the number of rows
ChgUpdate(t) ==
    /\ task[t].pc = "chg_update"
    /\ Tick
    /\ \E salt \in Salts, ok \in BOOLEAN :
        LET new_hash == hash_password(
                change_user_password_stored(task[t].password, task[t].new_password), salt)
            now == clock + 1
            rows == change_user_password_update_rows(task[t].user_id, task[t].user)
            op == task[t].op
        IN  IF ok
            THEN /\ users' = (users \ rows) \cup
                       {[r EXCEPT !.password_hash = Some(new_hash),
                                  !.updated_at = now] : r \in rows}
                 /\ Finish(t, op, "true", change_password_message(op, "true"), "")
                 /\ changed' = [changed EXCEPT ![task[t].user_id] =
                       IF /\ task[t].password # task[t].new_password
                          /\ Len(task[t].new_password) >= MIN_PASSWORD_LEN
                       THEN Some([cur |-> task[t].password,
                                  new |-> task[t].new_password,
                                  over |-> IF rows = {} THEN None
                                           ELSE (CHOOSE r \in rows : TRUE).password_hash])
                       ELSE None]
            ELSE /\ Finish(t, op, "Err", change_password_message(op, "Err"), "store")
                 /\ UNCHANGED <<users, changed>>
    /\ UNCHANGED <<next_id, sessions>>
    /\ UNCHANGED webvars

----------------------------------------------------------------------------
\* handle_logout, serve_profile and handle_profile_update

\* What handle_logout answers, given what session.remove returned
\* (a variant that fails when there was nothing to remove)
handle_logout_response_strict(removed) ==
    IF removed = "Ok(Some)" THEN RedirectLogin ELSE "500"

\* `let _ =` drops what session.remove returned
handle_logout_response(removed) == RedirectLogin

\* session.remove(USER_SESSION_KEY), session.clear(), Redirect::to("/login").
\* remove may fail in the store; clear empties the session in any case.
handle_logout(sid) ==
    \E ok \in BOOLEAN :
        LET removed == IF ~ok THEN "Err"
                       ELSE IF session_get(sid) = None THEN "Ok(None)" ELSE "Ok(Some)"
        IN  /\ sessions' = [sessions EXCEPT ![sid] = None]
            /\ expiry_date' = [expiry_date EXCEPT ![sid] = 0]
            /\ trail' = [trail EXCEPT ![sid].last_used = today]
            /\ ret' = [op |-> "handle_logout", result |-> removed,
                       response |-> handle_logout_response(removed),
                       why |-> IF ok THEN "" ELSE "store"]
            /\ UNCHANGED <<users, next_id, clock, task, changed, today, hasher, server, formatter>>

\* GET /profile
serve_profile(sid) ==
    \E ok \in BOOLEAN :
        LET user == get_current_user(sid, ok)
        IN  /\ IF user = None
               THEN /\ ret' = [op |-> "serve_profile", result |-> "None",
                               response |-> RedirectLogin,
                               why |-> IF ok THEN "no_identity" ELSE "store"]
                    /\ UNCHANGED trail
               ELSE /\ ret' = [op |-> "serve_profile", result |-> "Some",
                               response |-> ProfilePage, why |-> ""]
                    /\ trail' = [trail EXCEPT ![sid].last_used = today]
            /\ UNCHANGED <<users, next_id, clock, sessions, task, changed,
                           today, expiry_date, hasher, server, formatter>>

\* GET /: the welcome page, for a visitor with or without identity
serve_index(sid) ==
    \E ok \in BOOLEAN :
        LET current_user == get_current_user(sid, ok)
        IN  /\ ret' = [op |-> "serve_index",
                       result |-> IF current_user = None THEN "None" ELSE "Some",
                       response |-> IndexPage,
                       why |-> IF ok THEN "" ELSE "store"]
            /\ trail' = IF current_user = None THEN trail
                        ELSE [trail EXCEPT ![sid].last_used = today]
            /\ UNCHANGED <<users, next_id, clock, sessions, task, changed,
                           today, expiry_date, hasher, server, formatter>>

ProfileForm(email) ==
    [NoForm EXCEPT !.action = Some("update_profile"), !.email = Some(email)]

PasswordForm(current_password, new_password, confirm_password) ==
    [NoForm EXCEPT !.action = Some("change_password"),
                   !.current_password = Some(current_password),
                   !.new_password = Some(new_password),
                   !.confirm_password = Some(confirm_password)]

\* The forms posted: an email change, password changes (matching, too short,
\* not matching) and a form without an action
Forms ==
    {ProfileForm("alice2@example.com")}
    \cup {PasswordForm(c, "newpass123", "newpass123") : c \in {"hunter2pass", "short"}}
    \cup {PasswordForm("hunter2pass", "short", "short"),
          PasswordForm("hunter2pass", "short", "newpass123"),
          [NoForm EXCEPT !.email = Some("alice2@example.com")]}

\* The block of handle_profile_update the form selects
profile_block(form) ==
    IF /\ form.email # None
       /\ form.action # None
       /\ form.action[1] = "update_profile"
    THEN "update_profile"
    ELSE IF /\ form.current_password # None
            /\ form.new_password # None
            /\ form.confirm_password # None
            /\ form.action # None
            /\ form.action[1] = "change_password"
    THEN "change_password"
    ELSE "none"

\* A variant that looks at the length first
change_password_form_check_length_first(form) ==
    IF Len(form.new_password[1]) < MIN_PASSWORD_LEN THEN PasswordShortMsg
    ELSE IF form.new_password[1] # form.confirm_password[1] THEN PasswordsDifferMsg
    ELSE ""

\* The checks on the password form, in the handler's order ("": both pass)
change_password_form_check(form) ==
    IF form.new_password[1] # form.confirm_password[1] THEN PasswordsDifferMsg
    ELSE IF Len(form.new_password[1]) < MIN_PASSWORD_LEN THEN PasswordShortMsg
    ELSE ""

PuStart(t, sid, form) ==
    /\ task[t].pc = "idle"
    /\ task' = [task EXCEPT ![t] = [Idle EXCEPT !.op = "handle_profile_update",
                   !.pc = "pu_get", !.sid = sid, !.form = form]]
    /\ ret' = NoRet
    /\ UNCHANGED <<users, next_id, clock, sessions, changed>>
    /\ UNCHANGED webvars

\* get_current_user, the choice of the block and the checks on the form
PuGet(t) ==
    /\ task[t].pc = "pu_get"
    /\ \E ok \in BOOLEAN :
        LET sid == task[t].sid
            op == task[t].op
            form == task[t].form
            user == get_current_user(sid, ok)
            block == profile_block(form)
        IN  IF user = None
            THEN /\ Finish(t, op, "None", RedirectLogin,
                           IF ok THEN "no_identity" ELSE "store")
                 /\ UNCHANGED trail
            ELSE /\ trail' = [trail EXCEPT ![sid].last_used = today]
                 /\ CASE block = "update_profile" ->
                           /\ task' = [task EXCEPT ![t] = [task[t] EXCEPT
                                 !.pc = "pu_update", !.identity = user]]
                           /\ UNCHANGED ret
                      [] block = "change_password" ->
                           IF change_password_form_check(form) # ""
                           THEN Finish(t, op, "rejected",
                                       change_password_form_check(form), "form")
                           ELSE /\ task' = [task EXCEPT ![t] = [task[t] EXCEPT
                                      !.pc = "chg_select", !.identity = user,
                                      !.user_id = user[1].id,
                                      !.password = form.current_password[1],
                                      !.new_password = form.new_password[1]]]
                                /\ UNCHANGED ret
                      [] OTHER -> Finish(t, op, "", ProfilePage, "")
    /\ UNCHANGED <<users, next_id, clock, sessions, changed, today, expiry_date, hasher, server, formatter>>

\* AuthService::update_user_profile(&pool, user.id, email) and the match on it
PuUpdate(t) ==
    /\ task[t].pc = "pu_update"
    /\ Tick
    /\ \E ok \in BOOLEAN :
        LET now == clock + 1
            op == task[t].op
            rows == update_user_profile_rows(task[t].identity[1].id)
        IN  IF ok
            THEN /\ users' = (users \ rows) \cup
                       {[r EXCEPT !.email = task[t].form.email[1],
                                  !.updated_at = now] : r \in rows}
                 /\ IF rows # {}
                    THEN /\ task' = [task EXCEPT ![t] = [task[t] EXCEPT !.pc = "pu_insert"]]
                         /\ UNCHANGED ret
                    ELSE Finish(t, op, "false", ProfileFailedMsg, "no_user")
            ELSE /\ Finish(t, op, "Err", DatabaseErrorMsg, "store")
                 /\ UNCHANGED users
    /\ UNCHANGED <<next_id, sessions, changed>>
    /\ UNCHANGED webvars

\* Ok(true): `let _ = session.insert(USER_SESSION_KEY, &updated_user)`, whose
\* failure is dropped, and the page with the success message
PuInsert(t) ==
    /\ task[t].pc = "pu_insert"
    /\ \E ok \in BOOLEAN :
        LET sid == task[t].sid
            updated_user == [task[t].identity[1] EXCEPT !.email = task[t].form.email[1]]
        IN  /\ Finish(t, task[t].op, "true", ProfileUpdatedMsg,
                      IF ok THEN "" ELSE "store")
            /\ IF ok
               THEN /\ sessions' = [sessions EXCEPT ![sid] = Some(updated_user)]
                    /\ session_save(sid)
                    /\ trail' = [trail EXCEPT ![sid].last_used = today]
               ELSE UNCHANGED <<sessions, expiry_date, trail>>
    /\ UNCHANGED <<users, next_id, clock, changed, today, hasher, server, formatter>>

----------------------------------------------------------------------------
\* format_human_time (src/src/web.rs)

Digits == <<"0", "1", "2", "3", "4", "5", "6", "7", "8", "9">>

\* {}: a number in decimal notation
RECURSIVE to_string(_)
to_string(n) ==
    IF n < 10 THEN Digits[n + 1]
    ELSE to_string(n \div 10) \o Digits[(n % 10) + 1]

\* {:02}: at least two digits, padded with a zero
pad2(n) == IF n < 10 THEN "0" \o to_string(n) ELSE to_string(n)

\* match dt.month()
month_name(month) ==
    CASE month = 1 -> "Jan"
      [] month = 2 -> "Feb"
      [] month = 3 -> "March"
      [] month = 4 -> "April"
      [] month = 5 -> "May"
      [] month = 6 -> "June"
      [] month = 7 -> "July"
      [] month = 8 -> "Aug"
      [] month = 9 -> "Sept"
      [] month = 10 -> "Oct"
      [] month = 11 -> "Nov"
      [] month = 12 -> "Dec"
      [] OTHER -> "Unknown"

\* A variant without the guards for 11, 12 and 13
day_suffix_unguarded(day) ==
    CASE day % 10 = 1 -> "st"
      [] day % 10 = 2 -> "nd"
      [] day % 10 = 3 -> "rd"
      [] OTHER -> "th"

\* match day % 10 { 1 if day != 11 => "st", 2 if day != 12 => "nd",
\*                  3 if day != 13 => "rd", _ => "th" }
day_suffix(day) ==
    CASE day % 10 = 1 /\ day # 11 -> "st"
      [] day % 10 = 2 /\ day # 12 -> "nd"
      [] day % 10 = 3 /\ day # 13 -> "rd"
      [] OTHER -> "th"

\* (hour_12, am_pm)
hour_12_am_pm(hour) ==
    IF hour = 0 THEN <<12, "am">>
    ELSE IF hour < 12 THEN <<hour, "am">>
    ELSE IF hour = 12 THEN <<12, "pm">>
    ELSE <<hour - 12, "pm">>

\* format!("{} {}{}, {} @ {}:{:02}{}", ..)
format_human_time(dt) ==
    month_name(dt.month) \o " " \o to_string(dt.day) \o day_suffix(dt.day) \o ", "
    \o to_string(dt.year) \o " @ " \o to_string(hour_12_am_pm(dt.hour)[1]) \o ":"
    \o pad2(dt.minute) \o hour_12_am_pm(dt.hour)[2]

\* The instants formatted: every day of a month, hour and minute
FormatYears == {2025}
FormatMonths == {9}
FormatDays == 1..31
FormatHours == 0..23
FormatMinutes == 0..59

FormatHumanTime ==
    /\ formatter.pc = "start"
    /\ formatter' = [formatter EXCEPT !.pc = "done",
                                      !.result = format_human_time(formatter.dt)]
    /\ UNCHANGED <<users, next_id, clock, sessions, task, ret, changed,
                   today, expiry_date, trail, hasher, server>>

InitFormat ==
    /\ users = {}
    /\ next_id = 1
    /\ clock = 0
    /\ sessions = [s \in Sessions |-> None]
    /\ task = [t \in Tasks |-> Idle]
    /\ ret = NoRet
    /\ changed = [i \in UserIds |-> None]
    /\ today = 0
    /\ expiry_date = [s \in Sessions |-> 0]
    /\ trail = [s \in Sessions |-> NoTrail]
    /\ hasher = NoHasher
    /\ server = Serving
    /\ \E y \in FormatYears, mo \in FormatMonths, d \in FormatDays,
          h \in FormatHours, mi \in FormatMinutes :
          formatter = [pc |-> "start",
                       dt |-> [year |-> y, month |-> mo, day |-> d, hour |-> h,
                               minute |-> mi],
                       result |-> ""]

NextFormat == FormatHumanTime

SpecFormat == InitFormat /\ [][NextFormat]_vars

----------------------------------------------------------------------------
\* start_server (src/src/server.rs)

\* The step went through: start_server goes on to the next one
Advance(step, next) ==
    server' = [server EXCEPT !.pc = next, !.done = Append(@, step)]

\* std::process::exit(status) in the step
Exit(step, status) ==
    server' = [server EXCEPT !.pc = "exited", !.exit = Some(status), !.failed = step]

\* init_pool: Ok(pool), Err, or the panic of expect("DATABASE_URL must be set")
start_init_pool ==
    /\ server.pc = "init_pool"
    /\ \E out \in {"Ok", "Err", "panic"} :
          CASE out = "Ok" -> Advance("init_pool", "test_connection")
            [] out = "Err" -> Exit("init_pool", "exit(1)")
            [] OTHER -> Exit("init_pool", "exit(101)")
    /\ UNCHANGED <<users, next_id, clock, sessions, task, ret, changed,
                   today, expiry_date, trail, hasher, formatter>>

\* A variant that goes on unless the query itself failed
test_connection_passed_any_ok(out) == out # "Err"

\* match test_connection(..): only Ok(true) goes on
test_connection_passed(out) == out = "Ok(true)"

start_test_connection ==
    /\ server.pc = "test_connection"
    /\ \E out \in {"Ok(true)", "Ok(false)", "Err"} :
          IF test_connection_passed(out)
          THEN server' = [server EXCEPT !.pc = "run_migrations",
                             !.done = Append(@, "test_connection"),
                             !.connection = out]
          ELSE server' = [server EXCEPT !.pc = "exited", !.exit = Some("exit(1)"),
                             !.failed = "test_connection", !.connection = out]
    /\ UNCHANGED <<users, next_id, clock, sessions, task, ret, changed,
                   today, expiry_date, trail, hasher, formatter>>

start_run_migrations ==
    /\ server.pc = "run_migrations"
    /\ \E ok \in BOOLEAN :
          IF ok THEN Advance("run_migrations", "init_templates")
          ELSE Exit("run_migrations", "exit(1)")
    /\ UNCHANGED <<users, next_id, clock, sessions, task, ret, changed,
                   today, expiry_date, trail, hasher, formatter>>

\* init_templates: Tera::new, then TEMPLATES.set
start_init_templates ==
    /\ server.pc = "init_templates"
    /\ \E ok \in BOOLEAN :
          IF ok
          THEN server' = [server EXCEPT !.pc = "create_router",
                             !.done = Append(@, "init_templates"),
                             !.templates = TRUE]
          ELSE Exit("init_templates", "exit(1)")
    /\ UNCHANGED <<users, next_id, clock, sessions, task, ret, changed,
                   today, expiry_date, trail, hasher, formatter>>

\* create_router: PostgresStore::new(pool), session_store.migrate()
start_create_router ==
    /\ server.pc = "create_router"
    /\ \E ok \in BOOLEAN :
          IF ok THEN Advance("session_store.migrate", "bind")
          ELSE Exit("session_store.migrate", "exit(1)")
    /\ UNCHANGED <<users, next_id, clock, sessions, task, ret, changed,
                   today, expiry_date, trail, hasher, formatter>>

\* TcpListener::bind(&addr), then axum::serve(listener, app)
start_bind ==
    /\ server.pc = "bind"
    /\ \E ok \in BOOLEAN :
          IF ok THEN Advance("bind", "serve")
          ELSE Exit("bind", "exit(1)")
    /\ UNCHANGED <<users, next_id, clock, sessions, task, ret, changed,
                   today, expiry_date, trail, hasher, formatter>>

\* axum::serve returns an error
serve_error ==
    /\ server.pc = "serve"
    /\ Exit("serve", "exit(1)")
    /\ UNCHANGED <<users, next_id, clock, sessions, task, ret, changed,
                   today, expiry_date, trail, hasher, formatter>>

\* A request is accepted from the listener that axum::serve polls
Accepting == server.pc = "serve"

----------------------------------------------------------------------------
\* The specifications

\* The core in operation: logins and password changes in flight, interleaved
\* with administrative password resets and deactivations
Next ==
    \/ \E sid \in LoginSessions, u \in Usernames, p \in Passwords :
          StartLogin("t1", sid, u, p)
    \/ AuthSelect("t1")
    \/ AuthUpdate("t1")
    \/ SessionInsert("t1")
    \/ \E i \in CoreIds, c \in Passwords, n \in Passwords : StartChange("t2", i, c, n)
    \/ ChgSelect("t2")
    \/ ChgUpdate("t2")
    \/ \E i \in CoreIds, p \in Passwords : set_user_password(i, p)
    \/ \E i \in CoreIds : Deactivate(i)

Spec == Init /\ [][Next]_vars

\* The administrative operations on the users table, each one statement
NextStore ==
    \/ \E i \in UserIds, p \in Passwords : set_user_password(i, p)
    \/ \E i \in UserIds, e \in Emails : update_user_profile(i, e)
    \/ \E u \in Usernames, e \in Emails, p \in {None} \cup {Some(q) : q \in Passwords} :
          create_user(u, e, p)
    \/ \E i \in UserIds : Deactivate(i)
    \/ cleanup

SpecStore == Init /\ [][NextStore]_vars

\* The credentials posted to /login: alice's, bob's, and a wrong password
WebLogins ==
    {<<"alice", "hunter2pass">>, <<"bob", "newpass123">>, <<"alice", "short">>}

\* The operations that write the users table, one call after the other:
\* createUser, setPassword, changePassword, login and the profile update
NextOps ==
    \/ \E sid \in LoginSessions, l \in WebLogins : StartLogin("t1", sid, l[1], l[2])
    \/ AuthSelect("t1")
    \/ AuthUpdate("t1")
    \/ SessionInsert("t1")
    \/ \E i \in CoreIds, c \in Passwords, n \in Passwords : StartChange("t1", i, c, n)
    \/ ChgSelect("t1")
    \/ ChgUpdate("t1")
    \/ \E i \in CoreIds, p \in Passwords : set_user_password(i, p)
    \/ \E u \in Usernames, e \in Emails, p \in {None, Some("hunter2pass")} :
          create_user(u, e, p)
    \/ \E i \in CoreIds, e \in Emails : update_user_profile(i, e)

SpecOps == Init /\ [][NextOps]_vars

\* The passwords of two browser tabs that change alice's password
TabPasswords == {"newpass123", "otherpass456"}

\* Two calls of change_user_password in flight
NextChange ==
    \/ \E t \in {"t2", "t3"}, i \in CoreIds, c \in {"hunter2pass", "newpass123"},
          n \in TabPasswords : StartChange(t, i, c, n)
    \/ \E t \in {"t2", "t3"} : ChgSelect(t)
    \/ \E t \in {"t2", "t3"} : ChgUpdate(t)

SpecChange == Init /\ [][NextChange]_vars

\* The user store written by UserService, beside logins, password changes
\* and deactivations, one call at a time
NextService ==
    \/ \E i \in CoreIds : update_last_login(i)
    \/ \E i \in CoreIds, e \in Emails : update_user_email(i, e)
    \/ \E i \in CoreIds, h \in HashStrings : update_user_password(i, h)
    \/ \E sid \in LoginSessions, l \in WebLogins : StartLogin("t1", sid, l[1], l[2])
    \/ AuthSelect("t1")
    \/ AuthUpdate("t1")
    \/ SessionInsert("t1")
    \/ \E i \in CoreIds, c \in Passwords, n \in Passwords : StartChange("t1", i, c, n)
    \/ ChgSelect("t1")
    \/ ChgUpdate("t1")
    \/ \E i \in CoreIds : Deactivate(i)

SpecService == Init /\ [][NextService]_vars

\* A round trip through PasswordService: hash_password(password), then
\* verify_password(candidate, hash)
HasherHash ==
    /\ hasher.pc = "start"
    /\ \E salt \in HasherSalts :
          hasher' = [hasher EXCEPT !.pc = "hashed",
                                   !.hash = Some(hash_password(hasher.password, salt))]
    /\ UNCHANGED <<users, next_id, clock, sessions, task, ret, changed,
                   today, expiry_date, trail, server, formatter>>

HasherVerify ==
    /\ hasher.pc = "hashed"
    /\ hasher' = [hasher EXCEPT !.pc = "verified",
                                !.result = verify_password(hasher.candidate, hasher.hash[1])]
    /\ UNCHANGED <<users, next_id, clock, sessions, task, ret, changed,
                   today, expiry_date, trail, server, formatter>>

InitHasher ==
    /\ users = {}
    /\ next_id = 1
    /\ clock = 0
    /\ sessions = [s \in Sessions |-> None]
    /\ task = [t \in Tasks |-> Idle]
    /\ ret = NoRet
    /\ changed = [i \in UserIds |-> None]
    /\ today = 0
    /\ expiry_date = [s \in Sessions |-> 0]
    /\ trail = [s \in Sessions |-> NoTrail]
    /\ server = Serving
    /\ formatter = NoFormatter
    /\ \E p1 \in HasherPasswords, p2 \in HasherPasswords :
          hasher = [NoHasher EXCEPT !.pc = "start", !.password = p2, !.candidate = p1]

NextHasher == HasherHash \/ HasherVerify

SpecHasher == InitHasher /\ [][NextHasher]_vars

\* The table the web tests run on: alice, and bob beside her
Fixture2 ==
    Fixture(Some(hash_password("hunter2pass", 1)), TRUE)
    \cup { [id |-> 2, username |-> "bob", email |-> "bob@example.com",
            password_hash |-> Some(hash_password("newpass123", 1)),
            email_verified |-> FALSE, is_active |-> TRUE, last_login |-> None,
            created_at |-> 0, updated_at |-> 0] }

\* The session s1 as an earlier login of alice left it
WebState ==
    /\ users = Fixture2
    /\ next_id = 3
    /\ clock = 0
    /\ task = [t \in Tasks |-> Idle]
    /\ ret = NoRet
    /\ changed = [i \in UserIds |-> None]
    /\ today = 0
    /\ hasher = NoHasher
    /\ formatter = NoFormatter
    /\ \/ /\ sessions = [s \in Sessions |-> None]
          /\ expiry_date = [s \in Sessions |-> 0]
          /\ trail = [s \in Sessions |-> NoTrail]
       \/ \E r \in users :
             /\ r.id = 1
             /\ sessions = [s \in Sessions |-> IF s = "s1" THEN Some(From_User(r)) ELSE None]
             /\ expiry_date = [s \in Sessions |-> IF s = "s1" THEN SESSION_EXPIRY_DAYS ELSE 0]
             /\ trail = [s \in Sessions |->
                   IF s = "s1"
                   THEN [login |-> Some([id |-> r.id, username |-> r.username]),
                         last_used |-> 0]
                   ELSE NoTrail]

\* The application up and serving
InitWeb == WebState /\ server = Serving

\* The application: a login on either session in flight beside the profile
\* pages and the logout of the session s1
NextWeb ==
    \/ \E sid \in Sessions, l \in WebLogins : StartLogin("t1", sid, l[1], l[2])
    \/ AuthSelect("t1")
    \/ AuthUpdate("t1")
    \/ SessionInsert("t1")
    \/ \E sid \in LoginSessions, f \in Forms : PuStart("t3", sid, f)
    \/ PuGet("t3")
    \/ PuUpdate("t3")
    \/ PuInsert("t3")
    \/ ChgSelect("t3")
    \/ ChgUpdate("t3")
    \/ \E sid \in LoginSessions : handle_logout(sid)
    \/ \E sid \in LoginSessions : serve_profile(sid)

SpecWeb == InitWeb /\ [][NextWeb]_vars

\* One browser over the days: its requests come one after the other
NextExpiry ==
    \/ \E sid \in LoginSessions, l \in WebLogins : StartLogin("t1", sid, l[1], l[2])
    \/ AuthSelect("t1")
    \/ AuthUpdate("t1")
    \/ SessionInsert("t1")
    \/ \E sid \in LoginSessions, e \in Emails : PuStart("t1", sid, ProfileForm(e))
    \/ PuGet("t1")
    \/ PuUpdate("t1")
    \/ PuInsert("t1")
    \/ \E sid \in LoginSessions : handle_logout(sid)
    \/ \E sid \in LoginSessions : serve_profile(sid)
    \/ \E sid \in LoginSessions : serve_index(sid)
    \/ \E d \in DayJumps : DaysPass(d)

SpecExpiry == InitWeb /\ [][NextExpiry]_vars

\* The process from its start
InitServer == WebState /\ server = Starting

\* start_server, and the requests of one browser once it serves
NextServer ==
    \/ start_init_pool
    \/ start_test_connection
    \/ start_run_migrations
    \/ start_init_templates
    \/ start_create_router
    \/ start_bind
    \/ serve_error
    \/ Accepting /\ \E sid \in LoginSessions, l \in WebLogins :
                       StartLogin("t1", sid, l[1], l[2])
    \/ Accepting /\ AuthSelect("t1")
    \/ Accepting /\ AuthUpdate("t1")
    \/ Accepting /\ SessionInsert("t1")
    \/ Accepting /\ \E sid \in LoginSessions : handle_logout(sid)
    \/ Accepting /\ \E sid \in LoginSessions : serve_profile(sid)
    \/ Accepting /\ \E sid \in LoginSessions : serve_index(sid)

SpecServer == InitServer /\ [][NextServer]_vars

\* The administrator at the command line, one tool after the other
NextCli ==
    \/ \E args \in SetPasswordArgs : set_password_main(args)
    \/ \E args \in CreateUserArgs, stdin \in CreateUserStdin :
          create_user_main(args, stdin)

SpecCli == Init /\ [][NextCli]_vars

----------------------------------------------------------------------------
\* Properties

\* Task t takes a step
StepOf(t) == task'[t] # task[t]

\* The step of task t is a statement that failed in the store
StoreFailed(t) == task'[t] = Idle /\ ret'.why = "store"

\* hash is a hash of password (stated on the hash string, not by verify_password)
IsHashOf(hash, password) == hash.phc /\ hash.digest = <<hash.salt, password>>

\* The rejection cases of a login, read off the table: (a) no active user has
\* the username, (b) the user has no password hash, (c) the password is not
\* the one hashed
RejectionCase(username, password) ==
    LET rows == {r \in users : r.username = username /\ r.is_active}
    IN  IF rows = {} THEN "a"
        ELSE IF \E r \in rows : r.password_hash = None THEN "b"
        ELSE IF \E r \in rows : r.password_hash[1].phc
                                /\ ~IsHashOf(r.password_hash[1], password) THEN "c"
        ELSE "none"

\* C1: enumeration resistance.  A login whose lookup the store answers, in
\* each of the cases (a), (b) and (c), ends the request with the one page
\* "Invalid username or password", binds nothing to any session and changes
\* no user row.
C1_EnumerationResistance ==
    [][\A t \in Tasks :
        ( /\ task[t].pc = "auth_select"
          /\ StepOf(t)
          /\ ~StoreFailed(t)
          /\ RejectionCase(task[t].username, task[t].password) \in {"a", "b", "c"} )
        => /\ task'[t] = Idle
           /\ ret'.op = "login"
           /\ ret'.result = "None"
           /\ ret'.response = InvalidMsg
           /\ sessions' = sessions
           /\ users' = users]_vars

\* A login of a user without a password hash was turned down
C1_Witness ==
    /\ ret.op = "login"
    /\ ret.response = InvalidMsg
    /\ ret.why = "no_hash"
    /\ sessions["s1"] = None

\* C2: authenticate_user goes on to return an identity only from a lookup
\* that found an active row with the given username whose hash is a hash of
\* the given password; the identity it returns, and the one the session is
\* bound to, carries that row's id, username and email.
C2_AuthenticatedOnlyIfVerified ==
    [][\A t \in Tasks :
        (StepOf(t) /\ task[t].op = "login")
        => /\ task'[t].pc = "auth_update"
              => /\ task[t].pc = "auth_select"
                 /\ \E r \in users :
                       /\ r.username = task[t].username
                       /\ r.is_active
                       /\ r.password_hash # None
                       /\ IsHashOf(r.password_hash[1], task[t].password)
                       /\ task'[t].user = Some(r)
           /\ task'[t].pc = "session_insert"
              => /\ task[t].pc = "auth_update"
                 /\ task'[t].user = task[t].user
           /\ (task'[t] = Idle /\ ret'.result = "Some")
              => /\ task[t].pc = "session_insert"
                 /\ \/ sessions' = sessions
                    \/ sessions' = [sessions EXCEPT ![task[t].sid] =
                          Some([id |-> task[t].user[1].id,
                                username |-> task[t].user[1].username,
                                email |-> task[t].user[1].email,
                                is_active |-> TRUE])]]_vars

\* A login was authenticated and its session is bound to alice
C2_Witness ==
    /\ ret.op = "login"
    /\ ret.result = "Some"
    /\ ret.response = RedirectHome
    /\ sessions["s1"] # None
    /\ sessions["s1"][1].username = "alice"

\* C3: the last-login update is best-effort: once the password has verified,
\* authenticate_user returns the identity whether or not the UPDATE of
\* last_login succeeds.
C3_LastLoginBestEffort ==
    [][\A t \in Tasks :
        (task[t].pc = "auth_update" /\ StepOf(t)) => task'[t].pc = "session_insert"]_vars

\* C4: password-change gating.  While the record of a successful
\* change_user_password(id, cur, new), cur # new, Len(new) >= 8, stands for a
\* user (no other password write since), a login of that active user that the
\* store serves is authenticated with new and turned down with cur.
C4_PasswordChangeGating ==
    [][\A t \in Tasks :
        (StepOf(t) /\ ~StoreFailed(t))
        => /\ task[t].pc = "auth_select"
              => \A r \in users :
                    ( /\ r.username = task[t].username
                      /\ r.is_active
                      /\ changed[r.id] # None )
                    => /\ task[t].password = changed[r.id][1].new
                          => task'[t].pc = "auth_update"
                       /\ task[t].password = changed[r.id][1].cur
                          => (task'[t] = Idle /\ ret'.result = "None"
                              /\ ret'.response = InvalidMsg)
           /\ task[t].pc = "auth_update" => task'[t].pc = "session_insert"
           /\ task[t].pc = "session_insert"
              => (ret'.result = "Some" /\ ret'.response = RedirectHome)]_vars

\* A login with the new password of a changed user has been authenticated
C4_Witness ==
    /\ task["t1"].pc = "session_insert"
    /\ task["t1"].seen # None
    /\ task["t1"].password = task["t1"].seen[1].new
    /\ task["t1"].seen[1].cur = "hunter2pass"

\* The cases in which change_user_password must turn the call down: no row
\* with the id, an inactive row, no password hash, or a hash of another
\* password
ChangeRejected(user_id, current_password) ==
    LET rows == {r \in users : r.id = user_id}
    IN  \/ rows = {}
        \/ \E r \in rows :
              \/ ~r.is_active
              \/ r.password_hash = None
              \/ r.password_hash[1].phc /\ ~IsHashOf(r.password_hash[1], current_password)

\* C5: change_user_password returns Ok(false) and changes no user row when
\* the current password is not the one hashed, the id is not found, the user
\* is inactive or has no password hash.
C5_ChangeRejectedLeavesRow ==
    [][\A t \in Tasks :
        ( /\ task[t].pc = "chg_select"
          /\ StepOf(t)
          /\ ~StoreFailed(t)
          /\ ChangeRejected(task[t].user_id, task[t].password) )
        => /\ task'[t] = Idle
           /\ ret'.op = "change_user_password"
           /\ ret'.result = "false"
           /\ users' = users]_vars

\* A change with a wrong current password was turned down
C5_Witness ==
    /\ ret.op = "change_user_password"
    /\ ret.result = "false"
    /\ ret.why = "mismatch"

\* C6: change_user_password itself turns down a new password shorter than
\* 8 characters: such a call changes no user row and does not return Ok(true).
C6_MinLengthInOperation ==
    [][\A t \in Tasks :
        ( /\ task[t].op = "change_user_password"
          /\ Len(task[t].new_password) < MIN_PASSWORD_LEN
          /\ StepOf(t) )
        => /\ users' = users
           /\ task'[t] = Idle => ret'.result # "true"]_vars

\* C7: update_user_profile returns true exactly when an active row has the
\* id; then that row gets the email (and updated_at) and every other row
\* stays; otherwise it returns false and the table stays.
C7_UpdateProfile ==
    [][\A i \in UserIds, e \in Emails :
        (update_user_profile(i, e) /\ ret'.why # "store")
        => LET rows == {r \in users : r.id = i /\ r.is_active}
           IN  /\ ret'.result = (IF rows # {} THEN "true" ELSE "false")
               /\ rows = {} => users' = users
               /\ \A r \in rows :
                     users' = (users \ {r}) \cup
                              {[r EXCEPT !.email = e, !.updated_at = clock']}]_vars

\* alice's email was updated while another row exists
C7_Witness ==
    /\ ret.op = "update_user_profile"
    /\ ret.result = "true"
    /\ \E r \in users : r.id = 1 /\ r.email = "alice2@example.com" /\ r.updated_at = clock
    /\ \E r \in users : r.id = 2

\* C8: set_user_password returns Ok exactly when its UPDATE found a row with
\* the id, and then the row's hash is a hash of the password; with no such row
\* it returns the "not found" error and the table stays; it never returns Ok
\* without the hash being in the table.
C8_SetPassword ==
    [][\A i \in UserIds, p \in Passwords :
        set_user_password(i, p)
        => LET rows == {r \in users : r.id = i}
           IN  /\ ret'.result = "Ok"
                  => \E r \in users' :
                        /\ r.id = i
                        /\ r.password_hash # None
                        /\ IsHashOf(r.password_hash[1], p)
               /\ ret'.result = "NotFound" => rows = {}
               /\ ret'.why # "store"
                  => /\ ret'.result = (IF rows # {} THEN "Ok" ELSE "NotFound")
                     /\ rows = {} => users' = users
                     /\ \A r \in users : r.id # i => r \in users'
                     /\ Cardinality(users') = Cardinality(users)]_vars

\* A password was set on a row that create_user had inserted without one
C8_Witness ==
    /\ ret.op = "set_user_password"
    /\ ret.result = "Ok"
    /\ \E r \in users :
          /\ r.created_at > 0
          /\ r.updated_at = clock
          /\ r.password_hash # None
          /\ IsHashOf(r.password_hash[1], "newpass123")

\* C9: a create_user that returns Ok has inserted exactly one row: active,
\* email-unverified, without last login, with the given username and email,
\* and with a hash of the password exactly when a password was given.
C9_CreateUser ==
    [][\A u \in Usernames, e \in Emails, p \in {None} \cup {Some(q) : q \in Passwords} :
        create_user(u, e, p)
        => /\ ret'.result = "Ok"
              => \E r \in users' \ users :
                    /\ users' = users \cup {r}
                    /\ \A o \in users : o.id # r.id
                    /\ r.username = u
                    /\ r.email = e
                    /\ r.is_active
                    /\ ~r.email_verified
                    /\ r.last_login = None
                    /\ (p = None) <=> (r.password_hash = None)
                    /\ p # None => IsHashOf(r.password_hash[1], p[1])
           /\ ret'.result # "Ok" => users' = users]_vars

\* A user was created without a password next to one created with a password
C9_Witness ==
    /\ ret.op = "create_user"
    /\ ret.result = "Ok"
    /\ \E r \in users : r.created_at > 0 /\ r.password_hash = None
    /\ \E r \in users : r.created_at > 0 /\ r.password_hash # None

\* C10: usernames are unique in every reachable state; a create_user whose
\* username is taken inserts nothing, leaves the table as it is and, when the
\* INSERT reached the table, returns the duplicate error, which no other
\* failure returns.
C10_DuplicateUsername ==
    /\ [](\A r1 \in users, r2 \in users : r1.username = r2.username => r1 = r2)
    /\ [][\A u \in Usernames, e \in Emails, p \in {None} \cup {Some(q) : q \in Passwords} :
            create_user(u, e, p)
            => /\ (\E r \in users : r.username = u)
                  => /\ users' = users
                     /\ ret'.result # "Ok"
                     /\ ret'.why # "store" => ret'.result = "Duplicate"
               /\ ret'.result = "Duplicate" => \E r \in users : r.username = u
               /\ ret'.why = "store" => ret'.result = "Err"]_vars

\* A creation with a taken username was answered with the duplicate error
C10_Witness ==
    /\ ret.op = "create_user"
    /\ ret.result = "Duplicate"
    /\ Cardinality(users) = 1

\* C11: in every state the five operations reach, a user's password hash is
\* unset or a PHC string the hasher produces for some password: never the
\* password itself, never the empty string.
C11_HashInvariant ==
    \A r \in users :
        \/ r.password_hash = None
        \/ \E p \in Passwords : IsHashOf(r.password_hash[1], p)

\* create_user stored a hash and change_user_password replaced alice's
C11_Witness ==
    /\ \E r \in users : r.id = 2 /\ r.password_hash # None
    /\ \E r \in users : r.id = 1 /\ changed[1] # None
                          /\ IsHashOf(r.password_hash[1], changed[1][1].new)

\* C12: sessions do not leak across users.  A session that resolves to an
\* identity resolves to the id and username of the user whose credentials the
\* most recent successful login on that session verified.
C12_SessionsDoNotLeak ==
    \A s \in Sessions :
        session_get(s) # None
        => /\ trail[s].login # None
           /\ session_get(s)[1].id = trail[s].login[1].id
           /\ session_get(s)[1].username = trail[s].login[1].username

\* C13: session expiry.  While the record of a session is in the store and
\* the last request that used the session is more than 30 days back, a
\* request on it finds no identity: GET /profile and POST /profile answer
\* with the redirect to /login, and the record stays where it is.
C13_SessionExpiry ==
    [][\A s \in Sessions :
        ( /\ sessions[s] # None
          /\ today - trail[s].last_used > SESSION_EXPIRY_DAYS )
        => /\ serve_profile(s)
              => (ret'.result = "None" /\ ret'.response = RedirectLogin)
           /\ \A t \in Tasks :
                 (task[t].pc = "pu_get" /\ task[t].sid = s /\ StepOf(t))
                 => /\ task'[t] = Idle
                    /\ ret'.result = "None"
                    /\ ret'.response = RedirectLogin
                    /\ sessions' = sessions]_vars

\* GET /profile on a record last used 45 days ago was sent to /login
C13_Witness ==
    /\ ret.op = "serve_profile"
    /\ ret.response = RedirectLogin
    /\ ret.why = "no_identity"
    /\ sessions["s1"] # None
    /\ today - trail["s1"].last_used > SESSION_EXPIRY_DAYS

\* C14: idempotent logout.  Every logout, also of a session that has no
\* identity (a second logout) and also when session.remove fails, answers with
\* the redirect to /login, and the session resolves to no identity after it.
C14_IdempotentLogout ==
    [][\A s \in Sessions :
        handle_logout(s)
        => /\ ret'.op = "handle_logout"
           /\ ret'.response = RedirectLogin
           /\ sessions'[s] = None
           /\ \A o \in Sessions \ {s} : sessions'[o] = sessions[o]
           /\ users' = users]_vars

\* A session that a login had bound was logged out when it had no identity
C14_Witness ==
    /\ ret.op = "handle_logout"
    /\ ret.result = "Ok(None)"
    /\ ret.response = RedirectLogin
    /\ trail["s1"].login # None
    /\ sessions["s1"] = None

\* C15: required authentication.  GET /profile and POST /profile on a
\* session that resolves to no identity answer with the redirect to /login;
\* the request ends there, and neither the users table nor any session record
\* is written.
C15_RequiredAuth ==
    [][/\ \A s \in Sessions :
            (serve_profile(s) /\ session_get(s) = None)
            => /\ ret'.response = RedirectLogin
               /\ users' = users
               /\ sessions' = sessions
               /\ expiry_date' = expiry_date
       /\ \A t \in Tasks :
            ( /\ task[t].pc = "pu_get"
              /\ StepOf(t)
              /\ session_get(task[t].sid) = None )
            => /\ task'[t] = Idle
               /\ ret'.op = "handle_profile_update"
               /\ ret'.response = RedirectLogin
               /\ users' = users
               /\ sessions' = sessions
               /\ expiry_date' = expiry_date]_vars

\* POST /profile on a session without identity was sent to /login
C15_Witness ==
    /\ ret.op = "handle_profile_update"
    /\ ret.result = "None"
    /\ ret.response = RedirectLogin
    /\ ret.why = "no_identity"
    /\ sessions["s1"] = None

\* C16: profile update reflected in the session.  When POST /profile reports
\* the success of an email change, the session of the request resolves from
\* then on to the identity it had, with the new email: same id, username and
\* active flag, under the same session id.
C16_ProfileUpdateReflected ==
    [][\A t \in Tasks :
        ( /\ task[t].op = "handle_profile_update"
          /\ StepOf(t)
          /\ task'[t] = Idle
          /\ ret'.response = ProfileUpdatedMsg )
        => /\ sessions'[task[t].sid] # None
           /\ expiry_date'[task[t].sid] > today'
           /\ sessions'[task[t].sid][1] =
                 [task[t].identity[1] EXCEPT !.email = task[t].form.email[1]]]_vars

C18_UpdatesScopedToActive ==
    [][\A r \in users : ~r.is_active => r \in users']_vars

\* A malformed hash is stored for the active user the call names
MalformedFor(rows) ==
    \E r \in rows : /\ r.is_active
                     /\ r.password_hash # None
                     /\ ~r.password_hash[1].phc

\* C20: a malformed stored hash is a verification failure for every caller:
\* the login is turned down with "Invalid username or password",
\* change_user_password returns Ok(false), and neither changes a user row.
C20_MalformedHashRejected ==
    [][\A t \in Tasks :
        (StepOf(t) /\ ~StoreFailed(t))
        => /\ ( /\ task[t].pc = "auth_select"
                /\ MalformedFor({r \in users : r.username = task[t].username}) )
              => /\ task'[t] = Idle
                 /\ ret'.result = "None"
                 /\ ret'.response = InvalidMsg
                 /\ users' = users
           /\ ( /\ task[t].pc = "chg_select"
                /\ MalformedFor({r \in users : r.id = task[t].user_id}) )
              => /\ task'[t] = Idle
                 /\ ret'.result = "false"
                 /\ users' = users]_vars

\* C19: concurrent password changes are last-write-wins.  Every call that
\* has verified the current password succeeds at its UPDATE, also when another
\* call has replaced the hash since; after each UPDATE the stored hash
\* verifies the new password of that call and no other password.
C19_LastWriteWins ==
    [][\A t \in Tasks :
        (task[t].pc = "chg_update" /\ StepOf(t) /\ ~StoreFailed(t))
        => /\ task'[t] = Idle
           /\ ret'.result = "true"
           /\ \A r \in users' :
                 r.id = task[t].user_id
                 => /\ r.password_hash # None
                    /\ \A p \in Passwords \cup TabPasswords :
                          (verify_password(p, r.password_hash[1]) = "true")
                          <=> (p = task[t].new_password)]_vars

\* Two calls presented alice's password hunter2pass; the first stored
\* otherpass456, the second then stored newpass123 over it
C19_Witness ==
    /\ ret.op = "change_user_password"
    /\ ret.result = "true"
    /\ changed[1] # None
    /\ changed[1][1].cur = "hunter2pass"
    /\ changed[1][1].new = "newpass123"
    /\ changed[1][1].over # None
    /\ IsHashOf(changed[1][1].over[1], "otherpass456")
    /\ \E r \in users : r.id = 1 /\ IsHashOf(r.password_hash[1], "newpass123")

\* The responses of POST /login and POST /profile: the redirects, the page
\* without a message, the success messages, the rejections, the system errors
SuccessOutcomes == {RedirectHome, ProfilePage, ProfileUpdatedMsg, PasswordChangedMsg}
RejectionOutcomes ==
    {InvalidMsg, RedirectLogin, ProfileFailedMsg, PasswordsDifferMsg,
     PasswordShortMsg, CurrentIncorrectMsg}
SystemErrorOutcomes ==
    {SystemErrorMsg, SessionErrorMsg, DatabaseErrorMsg, ChangeErrorMsg}

C22_SlidingWindow ==
    \A s \in Sessions :
        ( /\ sessions[s] # None
          /\ today - trail[s].last_used < SESSION_EXPIRY_DAYS )
        => session_get(s) # None

\* The strings that are integers in decimal notation
DecimalIntegers == {"1", "2", "+1"}

C24_CliUsersHavePasswords ==
    (ret.op = "create_user" /\ ret.result = "exit(0)")
    => \A r \in users : r.id = next_id - 1 => r.password_hash # None

\* C25: session snapshots do not drift from the store.  While no profile
\* update is in flight, every session that resolves to an identity holds the
\* email the users table stores for that user.
C25_SnapshotsDoNotDrift ==
    (\A t \in Tasks : task[t].op # "handle_profile_update")
    => \A s \in Sessions :
          session_get(s) # None
          => \E r \in users : /\ r.id = session_get(s)[1].id
                              /\ r.email = session_get(s)[1].email

\* C26: logout is final under interleaving.  A session that a logout has
\* emptied (it had been logged in, and holds no identity) gets an identity
\* again only by the session.insert of a successful login on it.
C26_LogoutIsFinal ==
    [][\A s \in Sessions :
        ( /\ trail[s].login # None
          /\ sessions[s] = None
          /\ sessions'[s] # None )
        => \E t \in Tasks : /\ task[t].op = "login"
                            /\ task[t].pc = "session_insert"
                            /\ task[t].sid = s
                            /\ StepOf(t)]_vars

\* C27: a login that does not authenticate leaves every session as it was:
\* the rejections, the store failures and the failed session.insert neither
\* create, replace nor destroy a session record.  The login that succeeds
\* replaces the identity of its own session alone, by the user it verified.
C27_FailedLoginKeepsSession ==
    [][\A t \in Tasks :
        (task[t].op = "login" /\ StepOf(t))
        => IF task'[t] = Idle /\ ret'.response = RedirectHome
           THEN /\ sessions'[task[t].sid] = Some(From_User(task[t].user[1]))
                /\ task[t].user[1].username = task[t].username
                /\ \A o \in Sessions \ {task[t].sid} : sessions'[o] = sessions[o]
           ELSE /\ sessions' = sessions
                /\ expiry_date' = expiry_date]_vars

\* A login on the session bound to alice verified its user and failed at
\* session.insert: the session still resolves to alice
C27_Witness ==
    /\ ret.op = "login"
    /\ ret.response = SessionErrorMsg
    /\ session_get("s1") # None
    /\ session_get("s1")[1].username = "alice"

\* C28: the order of the checks on a change_password form.  For an
\* authenticated request the handler compares new_password with
\* confirm_password, then looks at the length of new_password, and only then
\* calls change_user_password.  When a check fails the request ends with the
\* message of the first failing check, and the users table is neither read
\* nor written; when both pass, the request goes on to the SELECT of
\* change_user_password.
C28_FormChecksInOrder ==
    [][\A t \in Tasks :
        ( /\ task[t].pc = "pu_get"
          /\ StepOf(t)
          /\ task[t].form.action = Some("change_password")
          /\ ~(task'[t] = Idle /\ ret'.response = RedirectLogin) )
        => LET new_password == task[t].form.new_password[1]
               confirm_password == task[t].form.confirm_password[1]
           IN  /\ users' = users
               /\ IF new_password # confirm_password
                  THEN task'[t] = Idle /\ ret'.response = PasswordsDifferMsg
                  ELSE IF Len(new_password) < 8
                  THEN task'[t] = Idle /\ ret'.response = PasswordShortMsg
                  ELSE /\ task'[t].pc = "chg_select"
                       /\ task'[t].new_password = new_password
                       /\ ret' = ret]_vars

\* The form whose new password is too short and differs from its
\* confirmation was answered with "New passwords do not match"; the users
\* table is as it was
C28_Witness ==
    /\ ret.op = "handle_profile_update"
    /\ ret.why = "form"
    /\ ret.response = PasswordsDifferMsg
    /\ users = Fixture2

\* A request has been handled, or is in flight
Handled == ret # NoRet \/ \E t \in Tasks : task[t] # Idle

\* C29: startup ordering.  Whenever the server accepts requests, and whenever
\* a handler has run, start_server has completed, in this order: the pool,
\* the connectivity test with the answer true, the migrations, the templates,
\* the migration of the session store, the bind.  When one of these steps
\* fails the process has exited with a failure status and no request was
\* handled; no handler runs while the templates are not initialized.
C29_StartupOrdering ==
    /\ (Handled \/ server.pc = "serve")
       => /\ server.done = <<"init_pool", "test_connection", "run_migrations",
                             "init_templates", "session_store.migrate", "bind">>
          /\ server.connection = "Ok(true)"
          /\ server.templates
    /\ server.failed \in {"init_pool", "test_connection", "run_migrations",
                          "init_templates", "session_store.migrate", "bind"}
       => /\ server.pc = "exited"
          /\ server.exit \in {Some("exit(1)"), Some("exit(101)")}
          /\ ~Handled

\* GET / was answered by the server that start_server brought up
C29_Witness ==
    /\ server.pc = "serve"
    /\ Len(server.done) = 6
    /\ ret.op = "serve_index"
    /\ ret.response = IndexPage

\* The ordinal suffix of a day of the month, the hour of the 12-hour clock,
\* and the minute in two digits, each by its table
OrdinalSuffix(day) ==
    IF day \in {1, 21, 31} THEN "st"
    ELSE IF day \in {2, 22} THEN "nd"
    ELSE IF day \in {3, 23} THEN "rd"
    ELSE "th"

ClockHour(hour) ==
    <<"12", "1", "2", "3", "4", "5", "6", "7", "8", "9", "10", "11",
      "12", "1", "2", "3", "4", "5", "6", "7", "8", "9", "10", "11">>[hour + 1]

TwoDigits(minute) == Digits[(minute \div 10) + 1] \o Digits[(minute % 10) + 1]

\* C30: for every day 1..31, hour 0..23 and minute 0..59, format_human_time
\* renders the day with its English ordinal suffix (st, nd, rd for 1, 2, 3,
\* 21, 22, 23, 31; th for the others, 11, 12 and 13 among them), the hour of
\* the 12-hour clock (0 and 12 as 12, 13..23 as 1..11), am for the hours
\* 0..11 and pm for 12..23, and the minute in two digits.
C30_FormatHumanTime ==
    formatter.pc = "done"
    => LET dt == formatter.dt
       IN  formatter.result =
              "Sept " \o to_string(dt.day) \o OrdinalSuffix(dt.day) \o ", 2025 @ "
              \o ClockHour(dt.hour) \o ":" \o TwoDigits(dt.minute)
              \o (IF dt.hour \in 0..11 THEN "am" ELSE "pm")

\* The 11th at 00:05 was rendered as "Sept 11th, 2025 @ 12:05am"
C30_Witness ==
    /\ formatter.pc = "done"
    /\ formatter.dt.day = 11
    /\ formatter.dt.hour = 0
    /\ formatter.dt.minute = 5
    /\ formatter.result = "Sept 11th, 2025 @ 12:05am"

====
